---------------------------- MODULE Spec2Model ----------------------------
(***************************************************************************)
(* One POST /crawl request of the crawler service (src/app.py) and the     *)
(* worker thread it starts (_run_crawl_async -> crawl_and_parse in         *)
(* src/crawling.py, browser session from src/crawler_config.py).           *)
(* Requests share no state, so the model follows one request: the handler  *)
(* thread and the worker thread it spawns run interleaved.                 *)
(***************************************************************************)
EXTENDS Integers, Sequences, FiniteSets, TLC

VARIABLES
    request,        \* the inbound HTTP request, None before it arrives
    hpc,            \* position of the Flask handler crawl()
    response,       \* HTTP status returned by crawl(), 0 while none
    threads,        \* number of threading.Thread objects started
    api_input,      \* the dict handed to the worker, None if not built
    wpc,            \* position of the worker thread
    driver,         \* the webdriver: "none", "open", "quit"
    profile,        \* the temporary user-data dir exists on disk
    cookiesLeft,    \* cookies still to inject in the loop of crawl_and_parse
    page,           \* what the browser rendered, None before the reload
    parsed,         \* PageParser.parse_all() has been called
    raised,         \* exceptions raised so far: <<[at, msg]>>
    result,         \* crawl_and_parse's local `result`
    payload,        \* callback_payload of _run_crawl_async, None before built
    postCalls,      \* number of calls of _post_callback
    posts,          \* the POSTs made by _post_callback: <<[url, outcome]>>
    delivered,      \* return value of _post_callback, None before it returns
    call            \* the last call of a utility function: its arguments
                    \* and what it returned, None while there was none

vars == <<request, hpc, response, threads, api_input, wpc, driver, profile,
          cookiesLeft, page, parsed, raised, result, payload, postCalls,
          posts, delivered, call>>

handlerVars == <<request, hpc, response, threads, api_input>>
sessionVars == <<driver, profile>>
callbackVars == <<payload, postCalls, posts, delivered>>
utilVars == <<call>>

---------------------------------------------------------------------------
(* Bounds of the model *)
MaxAnchors == 2     \* <a> elements on a rendered page
MaxCookies == 1     \* entries of the request's cookie map
MaxDepth == 1       \* largest depth value a request carries

(* Optional values: None, or Some(x) *)
None == <<>>
Some(x) == <<x>>
Get(o) == o[1]

---------------------------------------------------------------------------
(* The inbound request *)

\* A required field is absent, present but empty (""), or a non-empty string.
FieldValues == {"absent", "empty", "ok"}

\* A depth field is absent, an integer (nothing refuses a negative one), or
\* a value int() rejects.
DepthAbsent == [tag |-> "absent", val |-> 0]
DepthBad == [tag |-> "bad", val |-> 0]
DepthInt(n) == [tag |-> "int", val |-> n]
DepthValues == {DepthAbsent, DepthBad} \cup {DepthInt(n) : n \in -1..MaxDepth}

\* current_depth is only copied into the report: absent, or rejected by int()
CurrentDepthValues == {DepthAbsent, DepthBad}

\* is_json is the Content-Type test; body is what get_json(silent=True)
\* yields: a JSON object, a non-empty JSON array, or nothing parseable.
Requests ==
    { r \in [ is_json : BOOLEAN,
              body : {"object", "array", "invalid"},
              task_guid : FieldValues,
              parent_guid : FieldValues,
              target_url : FieldValues,
              max_depth : DepthValues,
              remaining_depth : DepthValues,
              current_depth : CurrentDepthValues,
              cookies : 0..MaxCookies ] :
        r.body # "object" =>
            /\ r.task_guid = "absent" /\ r.parent_guid = "absent"
            /\ r.target_url = "absent"
            /\ r.max_depth = DepthAbsent /\ r.remaining_depth = DepthAbsent
            /\ r.current_depth = DepthAbsent
            /\ r.cookies = 0 }

required == <<"task_guid", "parent_guid", "target_url">>

\* payload.get(k, default) on a depth field
DepthGet(d, default) == IF d.tag = "absent" THEN default ELSE d

\* int(x): raises on a value that is no integer
IntOk(d) == d.tag = "int"

\* Faulty variant of CrawlOutcome: a field counts as missing only when its key is
\* absent.
CrawlOutcomeKeyOnly(r) ==
    IF ~r.is_json THEN 400
    ELSE IF r.body = "array" THEN 500
    ELSE IF \E i \in 1..Len(required) : r[required[i]] = "absent" THEN 400
    ELSE IF "bad" \in {r.max_depth.tag, r.remaining_depth.tag,
                       r.current_depth.tag} THEN 500
    ELSE 200

\* crawl(), lines 147-164: the status the request is answered with when it
\* is not accepted, 200 when it is.
CrawlOutcome(r) ==
    IF ~r.is_json THEN 400
    ELSE IF r.body = "array" THEN 500            \* list has no .get
    ELSE IF \E i \in 1..Len(required) : r[required[i]] # "ok" THEN 400
    ELSE IF ~IntOk(DepthGet(r.max_depth, DepthInt(0))) THEN 500
    ELSE IF ~IntOk(DepthGet(r.remaining_depth,
                            DepthGet(r.max_depth, DepthInt(0)))) THEN 500
    ELSE IF ~IntOk(DepthGet(r.current_depth, DepthInt(0))) THEN 500
    ELSE 200

\* crawl(), lines 157-164
ApiInput(r) ==
    [ max_depth |-> DepthGet(r.max_depth, DepthInt(0)).val,
      remaining_depth |->
          DepthGet(r.remaining_depth, DepthGet(r.max_depth, DepthInt(0))).val,
      current_depth |-> DepthGet(r.current_depth, DepthInt(0)).val,
      cookies |-> r.cookies ]

---------------------------------------------------------------------------
(* URLs, rendered pages and the DOM pass of PageParser *)

\* An absolute URL is <<origin, path>>.
TargetOrigin == "https://a.test"
OtherOrigin == "https://b.test"
Origins == {TargetOrigin, OtherOrigin}
TargetUrl == <<TargetOrigin, "/">>

\* The href of an <a>: missing or empty, an absolute URL, or a root-relative
\* path.
HrefEmpty == [kind |-> "empty", origin |-> "", path |-> ""]
HrefAbs(o, p) == [kind |-> "abs", origin |-> o, path |-> p]
HrefRel(p) == [kind |-> "rel", origin |-> "", path |-> p]
Hrefs == {HrefEmpty, HrefAbs(OtherOrigin, "/x"), HrefRel("/x")}

\* urllib.parse.urljoin(base, href) for these shapes
urljoin(base, href) ==
    IF href.kind = "abs" THEN <<href.origin, href.path>>
    ELSE IF href.kind = "rel" THEN <<base[1], href.path>>
    ELSE base

\* soup.title: no <title> element, a <title> whose .string is None (empty,
\* or with child elements), or a <title> holding text.
Titles == {"none", "empty", "text"}

SeqsUpTo(S, n) == UNION { [1..k -> S] : k \in 0..n }

\* current_url is the URL after redirects; anchors are the <a> elements in
\* document order.
Pages == [ current_url : {<<o, "/">> : o \in Origins},
           title : Titles,
           anchors : SeqsUpTo(Hrefs, MaxAnchors),
           headings : { <<>> },
           generator : { None },
           wp_content : { FALSE },
           forms : { <<>> } ]

\* A <form>: the names of its inputs and its action attribute
LoginForm(action) == [inputs |-> {"username", "password"}, action |-> action]
SearchForm == [inputs |-> {"q", "password"}, action |-> HrefRel("/x")]

\* Pages that carry what the fingerprint and login-panel passes read: the
\* texts of the h1/h2/h3 elements, the content of the first generator meta
\* (None without one), whether the source holds /wp-content/ or
\* /wp-includes/, and the forms.
E2EPages ==
    [ current_url : {<<o, "/">> : o \in Origins},
      title : Titles \cup {"admin"},
      anchors : { <<>>, <<HrefRel("/login")>> },
      headings : { <<>>, <<"Dashboard">> },
      generator : { None, Some("WordPress 6.4"), Some("Joomla") },
      wp_content : BOOLEAN,
      forms : { <<>>, <<SearchForm>>, <<LoginForm(HrefEmpty)>>,
                <<LoginForm(HrefRel("/login"))>> } ]

\* PageParser._parse_dom, line 64: None.strip() raises AttributeError
TitleRaises(pg) == pg.title = "empty"

TitleOf(pg) ==
    IF pg.title = "text" THEN "T"
    ELSE IF pg.title = "admin" THEN "Admin Login"
    ELSE ""

\* PageParser._parse_dom, lines 82-85 and 141: hrefs that are truthy,
\* resolved against base_url, collected into a set
VisibleLinks(base_url, pg, collect_links) ==
    IF collect_links
    THEN { urljoin(base_url, pg.anchors[i]) :
             i \in { j \in 1..Len(pg.anchors) : pg.anchors[j].kind # "empty" } }
    ELSE {}

\* Faulty variant of CollectLinks: links are collected at depth 0 too.
CollectLinksAtZero(remaining_depth) == remaining_depth >= 0

\* crawl_and_parse, line 348
CollectLinks(remaining_depth) == remaining_depth > 0

\* _parse_fingerprints, lines 150-161: the entry of the generator meta
GeneratorCms(content) ==
    IF content = "WordPress 6.4" THEN "wordpress 6.4"
    ELSE IF content = "Joomla" THEN "joomla"
    ELSE content

\* "wordpress" in cms
IsWordpress(cms) == cms \in {"wordpress", "wordpress 6.4"}

\* _parse_fingerprints, lines 150-167: fingerprints["cms"]
Cms(pg) ==
    LET gen == IF pg.generator = None THEN <<>>
               ELSE <<GeneratorCms(Get(pg.generator))>>
    IN IF pg.wp_content /\ ~\E i \in 1..Len(gen) : IsWordpress(gen[i])
       THEN Append(gen, "wordpress")
       ELSE gen

\* keyword_patterns.search(text): the texts of the model that hold a word
\* of the admin vocabulary
AdminVocabulary == {"Admin Login", "Dashboard"}

\* Faulty variant of IsAdminLike: a login form makes the page admin-like.
IsAdminLikeWithForm(pg) ==
    \/ TitleOf(pg) \in AdminVocabulary
    \/ \E i \in 1..Len(pg.headings) : pg.headings[i] \in AdminVocabulary
    \/ \E i \in 1..Len(pg.forms) :
           {"username", "password"} \subseteq pg.forms[i].inputs

\* _parse_panel_login_signals, lines 227-232: title and h1/h2/h3 texts
IsAdminLike(pg) ==
    \/ TitleOf(pg) \in AdminVocabulary
    \/ \E i \in 1..Len(pg.headings) : pg.headings[i] \in AdminVocabulary

\* lines 214, 222-224: a link holds one of login_patterns
MatchesLoginPattern(url) == url[2] = "/login"

\* lines 236-239: has_password and has_user_field
IsLoginForm(form) ==
    /\ \E inp \in form.inputs : inp \in {"password"}
    /\ \E inp \in form.inputs : inp \in {"username"}

\* _parse_panel_login_signals, lines 217-249: the links that hold a login
\* pattern and the resolved actions of the login forms, as a set
Candidates(base_url, pg) ==
    { l \in { urljoin(base_url, pg.anchors[i]) :
                i \in { j \in 1..Len(pg.anchors) :
                          pg.anchors[j].kind # "empty" } } :
        MatchesLoginPattern(l) }
    \cup { urljoin(base_url, pg.forms[i].action) :
             i \in { j \in 1..Len(pg.forms) : IsLoginForm(pg.forms[j]) } }

\* crawl_and_parse, lines 350-376: the report assembled from the parse
Report(inp, pg) ==
    [ url |-> pg.current_url,
      title |-> TitleOf(pg),
      cms |-> Cms(pg),
      is_admin_like |-> IsAdminLike(pg),
      candidates |-> Candidates(pg.current_url, pg),
      visible_links |->
          VisibleLinks(pg.current_url, pg, CollectLinks(inp.remaining_depth)),
      remaining_depth |-> inp.remaining_depth,
      max_depth |-> inp.max_depth,
      current_depth |-> inp.current_depth ]

\* str(e) is the exception's message; a message is a sequence of pieces so
\* that text added in front of it shows.
Str(msg) == <<msg>>

\* crawl_and_parse's `result`: {} at line 327, the report of lines 358-376,
\* or the error dict of lines 381-393
ResultEmpty == [kind |-> "empty", error |-> <<>>, report |-> None]
ResultReport(rep) == [kind |-> "report", error |-> <<>>, report |-> Some(rep)]
ResultError(msg) == [kind |-> "error", error |-> Str(msg), report |-> None]

---------------------------------------------------------------------------
(* The completion callback *)

CALLBACK_PRIMARY == "/api/v1/internal/task/complete"
CALLBACK_FALLBACK == "/internal/task/complete"
CallbackUrls == <<CALLBACK_PRIMARY, CALLBACK_FALLBACK>>

\* What requests.post does: it returns a response with a status code, or
\* raises (connection error, timeout).
PostRaised == [kind |-> "exc", status |-> 0]
PostStatus(n) == [kind |-> "resp", status |-> n]
PostOutcomes == {PostRaised, PostStatus(200), PostStatus(304), PostStatus(500)}

\* Faulty variant of PostSucceeded: a redirect status counts as delivered.
PostSucceededBelow400(o) == o.kind = "resp" /\ o.status < 400

\* _post_callback, lines 68-70: the attempt counts as delivered
PostSucceeded(o) == o.kind = "resp" /\ o.status < 300

\* callback_payload; keys is the set of keys the dict holds
Payload(keys, status, result_data, error_message) ==
    [ keys |-> keys, status |-> status,
      result_data |-> result_data, error_message |-> error_message ]

AllKeys == {"guid", "parent_guid", "service_name", "status",
            "result_data", "error_message"}

\* _run_crawl_async, lines 88-110
PayloadOfResult(res) ==
    IF res.kind = "report"
    THEN Payload(AllKeys, "completed", res.report, None)
    ELSE Payload(AllKeys, "failed", None,
                 Some(IF res.kind = "error" THEN res.error
                      ELSE <<"Unknown crawl error">>))

\* _run_crawl_async, lines 112-121: no result_data key
PayloadOfException(msg) ==
    Payload(AllKeys \ {"result_data"}, "failed", None,
            Some(<<"Unexpected error: ">> \o Str(msg)))

---------------------------------------------------------------------------
Init ==
    /\ request = None
    /\ hpc = "idle"
    /\ response = 0
    /\ threads = 0
    /\ api_input = None
    /\ wpc = "none"
    /\ driver = "none"
    /\ profile = FALSE
    /\ cookiesLeft = 0
    /\ page = None
    /\ parsed = FALSE
    /\ raised = <<>>
    /\ result = ResultEmpty
    /\ payload = None
    /\ postCalls = 0
    /\ posts = <<>>
    /\ delivered = None
    /\ call = None

workerVars == <<wpc, driver, profile, cookiesLeft, page, parsed, raised,
                result, payload, postCalls, posts, delivered>>

(* The handler crawl() *)

\* lines 147-154 and 161-163: the request is refused (BadRequest, or an
\* exception Flask turns into a 500) before any thread is created
crawl_reject ==
    /\ hpc = "idle"
    /\ \E r \in Requests :
        /\ CrawlOutcome(r) # 200
        /\ request' = Some(r)
        /\ response' = CrawlOutcome(r)
    /\ hpc' = "done"
    /\ UNCHANGED <<threads, api_input>>
    /\ UNCHANGED workerVars
    /\ UNCHANGED utilVars

\* lines 147-167: the request passes the checks, api_input is built and the
\* worker thread is started
Accept(requests) ==
    /\ hpc = "idle"
    /\ \E r \in requests :
        /\ CrawlOutcome(r) = 200
        /\ request' = Some(r)
        /\ api_input' = Some(ApiInput(r))
    /\ threads' = threads + 1
    /\ wpc' = "started"
    /\ hpc' = "started"
    /\ UNCHANGED response
    /\ UNCHANGED utilVars
    /\ UNCHANGED <<driver, profile, cookiesLeft, page, parsed, raised,
                   result, payload, postCalls, posts, delivered>>

crawl_accept == Accept(Requests)

\* the requests that ask for remaining_depth 1
E2ERequests == { r \in Requests : r.remaining_depth = DepthInt(1) }

crawl_accept_depth1 == Accept(E2ERequests)

\* Faulty variant of crawl_return: the handler joins the worker before answering.
crawl_return_joins ==
    /\ hpc = "started"
    /\ wpc = "done"
    /\ response' = 200
    /\ hpc' = "done"
    /\ UNCHANGED <<request, threads, api_input>>
    /\ UNCHANGED workerVars
    /\ UNCHANGED utilVars

\* lines 169-175: the "accepted" response
crawl_return ==
    /\ hpc = "started"
    /\ response' = 200
    /\ hpc' = "done"
    /\ UNCHANGED <<request, threads, api_input>>
    /\ UNCHANGED workerVars
    /\ UNCHANGED utilVars

(* The worker: _run_crawl_async calling crawl_and_parse *)

Raise(at, msg) == raised' = Append(raised, [at |-> at, msg |-> msg])
LastRaised == raised[Len(raised)]

\* crawl_and_parse, line 325, and setup_driver_session: mkdtemp, then
\* webdriver.Chrome(), which may raise; the call is outside the try block
setup_driver_session ==
    /\ wpc = "started"
    /\ profile' = TRUE
    /\ \/ /\ driver' = "open"
          /\ wpc' = "get1"
          /\ UNCHANGED raised
       \/ /\ Raise("session", "SessionNotCreated")
          /\ wpc' = "except"
          /\ UNCHANGED driver
    /\ UNCHANGED handlerVars
    /\ UNCHANGED utilVars
    /\ UNCHANGED <<cookiesLeft, page, parsed, result>>
    /\ UNCHANGED callbackVars

\* What a page load can raise
GetErrors == {"NavigationFailed", "Timeout"}

\* crawl_and_parse, lines 379-393: the except block
Caught(at, msg) ==
    /\ Raise(at, msg)
    /\ result' = ResultError(msg)
    /\ wpc' = "finally"

\* Faulty variant of driver_get: a page load that gets stuck never returns.
driver_get_blocks ==
    /\ wpc = "get1"
    /\ \/ /\ wpc' = "cookies"
          /\ cookiesLeft' = Get(api_input).cookies
          /\ UNCHANGED <<raised, result>>
       \/ /\ Caught("get1", "NavigationFailed")
          /\ UNCHANGED cookiesLeft
       \/ /\ wpc' = "stuck"
          /\ UNCHANGED <<cookiesLeft, raised, result>>
    /\ UNCHANGED handlerVars
    /\ UNCHANGED utilVars
    /\ UNCHANGED <<driver, profile, page, parsed>>
    /\ UNCHANGED callbackVars

\* line 332: the first page load
driver_get ==
    /\ wpc = "get1"
    /\ \/ /\ wpc' = "cookies"
          /\ cookiesLeft' = Get(api_input).cookies
          /\ UNCHANGED <<raised, result>>
       \/ /\ \E m \in GetErrors : Caught("get1", m)
          /\ UNCHANGED cookiesLeft
    /\ UNCHANGED handlerVars
    /\ UNCHANGED utilVars
    /\ UNCHANGED <<driver, profile, page, parsed>>
    /\ UNCHANGED callbackVars

\* lines 333-334: one iteration of the cookie loop
add_cookie ==
    /\ wpc = "cookies"
    /\ cookiesLeft > 0
    /\ \/ /\ cookiesLeft' = cookiesLeft - 1
          /\ UNCHANGED <<wpc, raised, result>>
       \/ /\ Caught("cookie", "InvalidCookieDomain")
          /\ UNCHANGED cookiesLeft
    /\ UNCHANGED handlerVars
    /\ UNCHANGED utilVars
    /\ UNCHANGED <<driver, profile, page, parsed>>
    /\ UNCHANGED callbackVars

\* line 337: the reload, which renders the page
Reload(pages) ==
    /\ wpc = "cookies"
    /\ cookiesLeft = 0
    /\ \/ /\ \E pg \in pages : page' = Some(pg)
          /\ wpc' = "collect"
          /\ UNCHANGED <<raised, result>>
       \/ /\ \E m \in GetErrors : Caught("get2", m)
          /\ UNCHANGED page
    /\ UNCHANGED handlerVars
    /\ UNCHANGED utilVars
    /\ UNCHANGED <<driver, profile, cookiesLeft, parsed>>
    /\ UNCHANGED callbackVars

driver_get_reload == Reload(Pages)

driver_get_reload_e2e == Reload(E2EPages)

\* lines 340-343: collect_browser_data and page_source read the driver,
\* which raises if the browser is gone
collect_browser_data ==
    /\ wpc = "collect"
    /\ \/ /\ wpc' = "parse"
          /\ UNCHANGED <<raised, result>>
       \/ Caught("collect", "BrowserCrashed")
    /\ UNCHANGED handlerVars
    /\ UNCHANGED utilVars
    /\ UNCHANGED <<driver, profile, cookiesLeft, page, parsed>>
    /\ UNCHANGED callbackVars

\* lines 348-377: PageParser(...).parse_all() and the report; an exception
\* of the parser lands in the same except block
parse_all ==
    /\ wpc = "parse"
    /\ parsed' = TRUE
    /\ IF TitleRaises(Get(page))
       THEN Caught("extract", "AttributeError")
       ELSE /\ result' = ResultReport(Report(Get(api_input), Get(page)))
            /\ wpc' = "finally"
            /\ UNCHANGED raised
    /\ UNCHANGED handlerVars
    /\ UNCHANGED utilVars
    /\ UNCHANGED <<driver, profile, cookiesLeft, page>>
    /\ UNCHANGED callbackVars

\* Faulty variant of driver_quit: the finally block does not quit the driver.
driver_quit_skipped ==
    /\ wpc = "finally"
    /\ wpc' = "returned"
    /\ UNCHANGED handlerVars
    /\ UNCHANGED utilVars
    /\ UNCHANGED <<driver, profile, cookiesLeft, page, parsed, raised, result>>
    /\ UNCHANGED callbackVars

\* lines 394-401: the finally block quits the driver (the rmtree of the
\* profile directory is commented out), then crawl_and_parse returns
driver_quit ==
    /\ wpc = "finally"
    /\ driver' = "quit"
    /\ wpc' = "returned"
    /\ UNCHANGED handlerVars
    /\ UNCHANGED utilVars
    /\ UNCHANGED <<profile, cookiesLeft, page, parsed, raised, result>>
    /\ UNCHANGED callbackVars

\* _run_crawl_async, lines 85-110: the payload from the returned result
run_result ==
    /\ wpc = "returned"
    /\ payload' = Some(PayloadOfResult(result))
    /\ wpc' = "callback"
    /\ UNCHANGED handlerVars
    /\ UNCHANGED utilVars
    /\ UNCHANGED <<driver, profile, cookiesLeft, page, parsed, raised, result>>
    /\ UNCHANGED <<postCalls, posts, delivered>>

\* Faulty variant of run_except: the exception is not caught and ends the thread.
run_except_dies ==
    /\ wpc = "except"
    /\ wpc' = "died"
    /\ UNCHANGED handlerVars
    /\ UNCHANGED utilVars
    /\ UNCHANGED <<driver, profile, cookiesLeft, page, parsed, raised, result>>
    /\ UNCHANGED callbackVars

\* _run_crawl_async, lines 112-121: an exception that left crawl_and_parse
run_except ==
    /\ wpc = "except"
    /\ payload' = Some(PayloadOfException(LastRaised.msg))
    /\ wpc' = "callback"
    /\ UNCHANGED handlerVars
    /\ UNCHANGED utilVars
    /\ UNCHANGED <<driver, profile, cookiesLeft, page, parsed, raised, result>>
    /\ UNCHANGED <<postCalls, posts, delivered>>

\* line 124: _post_callback is called
post_callback_call ==
    /\ wpc = "callback"
    /\ postCalls' = postCalls + 1
    /\ wpc' = "post"
    /\ UNCHANGED handlerVars
    /\ UNCHANGED utilVars
    /\ UNCHANGED <<driver, profile, cookiesLeft, page, parsed, raised, result>>
    /\ UNCHANGED <<payload, posts, delivered>>

\* _post_callback, lines 66-75: one iteration of the loop over the two
\* endpoints; the function returns on the first success or after the second
\* failure, and lines 125-128 only log
post_attempt ==
    /\ wpc = "post"
    /\ LET i == Len(posts) + 1
       IN /\ i <= Len(CallbackUrls)
          /\ \E o \in PostOutcomes :
              /\ posts' = Append(posts, [url |-> CallbackUrls[i], outcome |-> o])
              /\ IF PostSucceeded(o)
                 THEN /\ delivered' = Some(<<TRUE, CallbackUrls[i], o.status>>)
                      /\ wpc' = "done"
                 ELSE IF i = Len(CallbackUrls)
                 THEN /\ delivered' = Some(<<FALSE, CALLBACK_FALLBACK, 0>>)
                      /\ wpc' = "done"
                 ELSE UNCHANGED <<delivered, wpc>>
    /\ UNCHANGED handlerVars
    /\ UNCHANGED utilVars
    /\ UNCHANGED <<driver, profile, cookiesLeft, page, parsed, raised, result>>
    /\ UNCHANGED <<payload, postCalls>>

WorkerNext ==
    \/ setup_driver_session
    \/ driver_get
    \/ add_cookie
    \/ driver_get_reload
    \/ collect_browser_data
    \/ parse_all
    \/ driver_quit
    \/ run_result
    \/ run_except
    \/ post_callback_call
    \/ post_attempt

Next ==
    \/ crawl_reject
    \/ crawl_accept
    \/ crawl_return
    \/ WorkerNext

Spec == Init /\ [][Next]_vars

\* One task of remaining depth 1 on a page with generator meta, headings and
\* forms
E2ENext ==
    \/ crawl_reject
    \/ crawl_accept_depth1
    \/ crawl_return
    \/ setup_driver_session
    \/ driver_get
    \/ add_cookie
    \/ driver_get_reload_e2e
    \/ collect_browser_data
    \/ parse_all
    \/ driver_quit
    \/ run_result
    \/ run_except
    \/ post_callback_call
    \/ post_attempt

E2ESpec == Init /\ [][E2ENext]_vars

\* The worker is a thread the scheduler keeps running, every driver call and
\* every POST returns or raises, and the handler returns its response.
FairSpec == Spec /\ WF_vars(WorkerNext) /\ WF_vars(crawl_return)

---------------------------------------------------------------------------
(* Properties *)

\* The steps of crawl_and_parse that belong to the Render Adapter
AdapterSteps == {"session", "get1", "cookie", "get2", "collect"}
AdapterFailed == \E i \in 1..Len(raised) : raised[i].at \in AdapterSteps
Accepted == threads > 0
WorkerDone == wpc = "done"
Status == Get(payload).status

\* C1: whatever way an accepted task ends (completed, failed after a render
\* error, failed after an exception that left crawl_and_parse, such as a
\* failed session creation), _run_crawl_async calls _post_callback exactly
\* once: never twice, and the worker cannot end without having called it.
C1_ExactlyOneCallback ==
    /\ postCalls <= 1
    /\ (postCalls = 1 => Accepted /\ payload # None)
    /\ (WorkerDone => postCalls = 1)
    /\ (Accepted /\ ~WorkerDone => ENABLED WorkerNext)

C1_Witness ==
    /\ WorkerDone
    /\ postCalls = 1
    /\ Len(raised) = 1 /\ raised[1].at = "session"

\* C2 (as claimed): no rendering of a task (browser profile, driver) begins
\* before the handler has produced the 200 response.
C2_AckBeforeRendering ==
    (profile \/ driver # "none") => response = 200

\* C2 (amended): the worker is started before the response is produced, so
\* rendering begins on either side of the response; it never begins before
\* the request has passed validation and its one thread has been started,
\* and the handler's response never waits for a step of the worker.
C2_AckNeverWaits ==
    /\ (wpc # "none" \/ profile \/ driver # "none") =>
          /\ hpc \in {"started", "done"}
          /\ threads = 1
          /\ api_input # None
    /\ (hpc = "started" => ENABLED crawl_return)

C2_Witness == profile /\ driver = "open" /\ response = 0 /\ hpc = "started"

\* C3: when the Render Adapter fails (at session creation, a page load or the
\* cookie injection), extraction is not run, the callback has status
\* "failed", its error_message is the adapter's message with nothing added
\* and its result_data is null.
C3_RenderFailureVerbatim ==
    (payload # None /\ Len(raised) > 0 /\ raised[1].at \in AdapterSteps) =>
        /\ ~parsed
        /\ Status = "failed"
        /\ Get(payload).error_message = Some(<<raised[1].msg>>)
        /\ "result_data" \in Get(payload).keys
        /\ Get(payload).result_data = None

\* C4: extraction never fails a task: a task whose page was rendered and
\* handed to the parser completes, and a task fails only through a Render
\* Adapter failure.
C4_ExtractionNeverFails ==
    payload # None =>
        /\ (parsed => Status = "completed")
        /\ (Status = "failed" => AdapterFailed)

\* C5: a task that has ended holds no rendering session: its driver is not
\* open and its temporary profile directory is gone.
C5_SessionReleased ==
    WorkerDone => (driver # "open" /\ ~profile)

\* C6 (as claimed): the completion notification comes first, the release of
\* the browser session afterwards: the session is never released before
\* _post_callback has been called.
C6_CallbackBeforeRelease ==
    driver = "quit" => postCalls >= 1

\* C6 (amended): driver.quit() comes first, the completion notification
\* afterwards: when the payload is built and when _post_callback is called
\* the driver of the task is no longer open.
C6_ReleaseBeforeCallback ==
    (payload # None \/ postCalls >= 1) => driver # "open"

C6_Witness == postCalls = 1 /\ posts = <<>> /\ driver = "quit"

\* The shape of one run of _post_callback that has returned: the primary
\* endpoint first, the fallback only after a failed primary attempt, one
\* attempt per endpoint, where Ok(o) says which attempts count as delivered.
PostShape(Ok(_)) ==
    /\ Len(posts) \in 1..2
    /\ posts[1].url = CALLBACK_PRIMARY
    /\ (Len(posts) = 2 =>
          /\ posts[2].url = CALLBACK_FALLBACK
          /\ ~Ok(posts[1].outcome))
    /\ (Len(posts) = 1 => Ok(posts[1].outcome))
    /\ (Get(delivered)[1] <=> \E i \in 1..Len(posts) : Ok(posts[i].outcome))

NonErrorStatus(o) == o.kind = "resp" /\ o.status < 400
Below300(o) == o.kind = "resp" /\ o.status < 300

\* C7 (as claimed): _post_callback tries the primary endpoint, then the
\* fallback only if the primary attempt failed by an exception, a timeout or
\* an error status, at most once each, and reports success iff some endpoint
\* returned a non-error status.
C7_DeliveredIffNonError ==
    WorkerDone => PostShape(NonErrorStatus)

\* C7 (amended): the same, with "delivered" meaning a status below 300: a
\* 3xx response is a failed attempt like an error status. At most two POSTs
\* are made, none after _post_callback returned, and no POST changes the
\* payload, the task's result or the response given to the caller.
C7_DeliveredIffBelow300 ==
    /\ [](/\ Len(posts) <= 2
          /\ (WorkerDone => PostShape(Below300))
          /\ (WorkerDone => ~ENABLED WorkerNext))
    /\ [][wpc = "post" =>
            /\ payload' = payload
            /\ result' = result
            /\ (response' = response \/ (response = 0 /\ hpc = "started"))]_vars

C7_Witness ==
    /\ WorkerDone
    /\ Len(posts) = 2
    /\ posts[1].outcome = PostStatus(304)
    /\ posts[2].outcome = PostRaised
    /\ Get(delivered) = <<FALSE, CALLBACK_FALLBACK, 0>>
    /\ Status = "completed"

\* C8: under fair scheduling every accepted task ends with its one callback
\* made and a terminal status, and a task whose page load timed out ends
\* "failed".
Terminal == WorkerDone /\ postCalls = 1 /\ Status \in {"completed", "failed"}
TimedOut == \E i \in 1..Len(raised) : raised[i].msg = "Timeout"

C8_EveryTaskEnds ==
    /\ Accepted ~> Terminal
    /\ [](TimedOut /\ Terminal => Status = "failed")

C8_Witness == Terminal /\ TimedOut /\ Status = "failed" /\ Len(posts) >= 1

\* The remaining depth of a request as the claim words it: the request's
\* remaining_depth, max_depth when that is absent, 0 when both are absent.
RequestDepth(r) ==
    IF r.remaining_depth.tag # "absent" THEN r.remaining_depth.val
    ELSE IF r.max_depth.tag # "absent" THEN r.max_depth.val
    ELSE 0

\* The anchor links of a page, each resolved against the final URL
AnchorLinks(pg) ==
    { urljoin(pg.current_url, h) :
        h \in { pg.anchors[i] : i \in 1..Len(pg.anchors) } \ {HrefEmpty} }

\* C9: the report of a completed task has no visible links when the
\* request's remaining depth is 0 (or less), and the full deduplicated set of
\* the page's anchor links, resolved against the final URL, when it is
\* positive.
C9_DepthGating ==
    (payload # None /\ Status = "completed") =>
        Get(Get(payload).result_data).visible_links =
            IF RequestDepth(Get(request)) > 0
            THEN AnchorLinks(Get(page))
            ELSE {}

C9_Witness ==
    /\ payload # None /\ Status = "completed"
    /\ Get(request).remaining_depth = DepthAbsent
    /\ Get(request).max_depth = DepthInt(1)
    /\ Get(page).current_url # TargetUrl
    /\ Len(Get(page).anchors) = 2
    /\ Get(page).anchors[1] # Get(page).anchors[2]
    /\ Cardinality(Get(Get(payload).result_data).visible_links) = 1

\* What a refused request leaves behind: nothing
NoEffect ==
    /\ threads = 0 /\ wpc = "none" /\ api_input = None
    /\ ~profile /\ driver = "none"
    /\ payload = None /\ postCalls = 0 /\ posts = <<>>

FieldsOf(r) == {r.task_guid, r.parent_guid, r.target_url}

---------------------------------------------------------------------------
(* The utility functions of crawler_config.py.  A string is the sequence  *)
(* of its pieces; a URL string is given by the components urlparse finds   *)
(* in it, and urlunparse writes the string that has the given components.  *)

MaxPathLen == 3     \* pieces of the path of a URL given to normalize_url
MaxParams == 2      \* key=value pairs of its query string

Last(q) == q[Len(q)]
Front(q) == SubSeq(q, 1, Len(q) - 1)

\* str.lower() on a host name
LowerHost(h) == IF h = "A.COM" THEN "a.com" ELSE h

\* Paths of URLs that have a host: empty, or starting with a slash
NormPaths ==
    { q \in SeqsUpTo({"/", "a"}, MaxPathLen) : q = <<>> \/ q[1] = "/" }

\* Query keys in the order Python sorts them (upper case first) and the
\* values they take, "" being a blank value
KeyOrder == <<"UTM_SOURCE", "a", "b", "utm_source">>
QueryKeys == { KeyOrder[i] : i \in 1..Len(KeyOrder) }
QueryValues == {"", "1"}
Queries == SeqsUpTo(QueryKeys \X QueryValues, MaxParams)

\* port 0 stands for a URL that writes no port
NormUrls ==
    [ scheme : {"http", "https"},
      host : {"a.com", "A.COM"},
      port : {0, 443, 8080},
      path : NormPaths,
      query : Queries,
      fragment : {"", "f"} ]

\* CrawlerConfig.params_to_remove, among the keys of the model
params_to_remove == {"utm_source"}

\* the values of key k in query string q, in the order written: one entry of
\* the dict parse_qs(q, keep_blank_values=True) builds
RECURSIVE ValuesOf(_, _)
ValuesOf(q, k) ==
    IF q = <<>> THEN <<>>
    ELSE (IF q[1][1] = k THEN <<q[1][2]>> ELSE <<>>) \o ValuesOf(Tail(q), k)

\* urlencode(sorted(filtered.items()), doseq=True): the keys that are left,
\* in sorted order, each with its values in the order written
RECURSIVE EncodeSorted(_, _)
EncodeSorted(q, i) ==
    IF i > Len(KeyOrder) THEN <<>>
    ELSE LET k == KeyOrder[i]
             vs == IF k \in params_to_remove THEN <<>> ELSE ValuesOf(q, k)
         IN [j \in 1..Len(vs) |-> <<k, vs[j]>>] \o EncodeSorted(q, i + 1)

\* str.rstrip('/')
RECURSIVE RStripSlash(_)
RStripSlash(q) ==
    IF q # <<>> /\ Last(q) = "/" THEN RStripSlash(Front(q)) ELSE q

\* normalize_url, lines 218-220
NormalizePath(path0, trailing_slash) ==
    LET path == IF path0 = <<>> THEN <<"/">> ELSE path0
    IN IF trailing_slash /\ Last(path) # "/" THEN Append(path, "/")
       ELSE IF ~trailing_slash /\ path # <<"/">> /\ Last(path) = "/"
       THEN RStripSlash(path)
       ELSE path

\* normalize_url, lines 208-212: the port is kept unless it is falsy or the
\* default of the scheme
NormalizePort(scheme, port) ==
    IF port # 0 /\ ~((scheme = "http" /\ port = 80)
                     \/ (scheme = "https" /\ port = 443))
    THEN port ELSE 0

\* normalize_url, lines 204-225
normalize_url(u, trailing_slash) ==
    [ scheme |-> u.scheme,
      host |-> LowerHost(u.host),
      port |-> NormalizePort(u.scheme, u.port),
      path |-> NormalizePath(u.path, trailing_slash),
      query |-> EncodeSorted(u.query, 1),
      fragment |-> "" ]

\* A utility function is called, once in a behaviour; nothing of a running
\* task is touched.
taskVars == <<request, hpc, response, threads, api_input, wpc, driver,
              profile, cookiesLeft, page, parsed, raised, result, payload,
              postCalls, posts, delivered>>

Called(fn, args, out) == call' = Some([fn |-> fn, args |-> args, out |-> out])
IsCall(fn) == call # None /\ Get(call).fn = fn
Args == Get(call).args
Out == Get(call).out

call_normalize_url ==
    /\ call = None
    /\ \E u \in NormUrls, trailing_slash \in BOOLEAN :
         Called("normalize_url", <<u, trailing_slash>>,
                normalize_url(u, trailing_slash))
    /\ UNCHANGED taskVars

\* is_within_scope.  A host name is the sequence of its labels, so that
\* "b.a.com" ends with ".a.com" and "xa.com" does not; port 0 stands for a
\* URL that writes no port, for which urlparse gives port None.
ScopeHosts == { <<"a", "com">>, <<"b", "a", "com">>, <<"xa", "com">> }

ScopePaths ==
    { q \in SeqsUpTo({"/", "admin", "x", ".pdf", ".PDF"}, MaxPathLen) :
        q = <<>> \/ q[1] = "/" }

\* the candidate URLs; <<>> is the empty string
ScopeTargets ==
    { None } \cup
    { Some(t) : t \in [ scheme : {"http", "https"},
                        host : ScopeHosts,
                        port : {0, 443, 8080},
                        path : ScopePaths ] }

\* the base URLs: https://a.com and https://a.com:443
ScopeBases ==
    [ scheme : {"https"}, host : { <<"a", "com">> }, port : {0, 443},
      path : { <<>> } ]

\* CrawlerConfig.path_blacklist and extension_blacklist, among the pieces
\* of the model
path_blacklist == { <<"/", "admin">> }
extension_blacklist == { ".pdf" }

\* `b in q`: b is a run of consecutive pieces of q
Contains(q, b) ==
    \E i \in 1..(Len(q) - Len(b) + 1) : SubSeq(q, i, i + Len(b) - 1) = b

\* str.lower() on a piece of a path
LowerPiece(x) == IF x = ".PDF" THEN ".pdf" ELSE x
LowerPath(q) == [i \in 1..Len(q) |-> LowerPiece(q[i])]

\* Faulty variant of PathRejected: the extension is compared as written.
PathRejectedCaseSensitive(path0) ==
    LET path == IF path0 = <<>> THEN <<"/">> ELSE path0
    IN \/ \E b \in path_blacklist : Contains(path, b)
       \/ \E e \in extension_blacklist : Last(path) = e

\* is_within_scope, lines 198-201
PathRejected(path0) ==
    LET path == IF path0 = <<>> THEN <<"/">> ELSE path0
    IN \/ \E b \in path_blacklist : Contains(path, b)
       \/ \E e \in extension_blacklist : Last(LowerPath(path)) = e

\* hostname.endswith("." + base hostname)
EndsWithDotHost(h, b) ==
    /\ Len(h) > Len(b)
    /\ SubSeq(h, Len(h) - Len(b) + 1, Len(h)) = b

\* is_within_scope, lines 192-197: FALSE where the code returns False
HostCheck(base, target, include_subdomains) ==
    IF include_subdomains
    THEN target.host = base.host \/ EndsWithDotHost(target.host, base.host)
    ELSE ~(\/ target.scheme # base.scheme
           \/ target.host # base.host
           \/ target.port # base.port)

\* is_within_scope, lines 187-202
is_within_scope(base, target_url, include_subdomains) ==
    IF target_url = None THEN FALSE
    ELSE IF ~HostCheck(base, Get(target_url), include_subdomains) THEN FALSE
    ELSE IF PathRejected(Get(target_url).path) THEN FALSE
    ELSE TRUE

call_is_within_scope ==
    /\ call = None
    /\ \E base \in ScopeBases, t \in ScopeTargets, inc \in BOOLEAN :
         Called("is_within_scope", <<base, t, inc>>,
                is_within_scope(base, t, inc))
    /\ UNCHANGED taskVars

\* mask_sensitive_value.  A key is the sequence of its pieces; a piece is
\* made of word characters only (letters, digits, underscore) or of other
\* characters only, so that the word boundaries of the pattern lie between
\* pieces.
MaxKeyLen == 3      \* pieces of a key given to mask_sensitive_value

\* the pieces that are not made of word characters
OtherPieces == {"-", "[", "]"}

\* CrawlerConfig.masking_replacement, "[REDACTED]"
masking_replacement == <<"[", "REDACTED", "]">>

MaskKeys ==
    SeqsUpTo({"api", "key", "token", "TOKEN", "title", "_", "-"}, MaxKeyLen)
        \cup { masking_replacement }
MaskValues == { <<"xyz">>, <<"token">>, masking_replacement }

\* (?i): the pattern is matched without regard to case
LowerKeyPiece(x) == IF x = "TOKEN" THEN "token" ELSE x
LowerKey(k) == [i \in 1..Len(k) |-> LowerKeyPiece(k[i])]

\* the alternatives api[-_]?key and token of masking_regex
SensitiveNames ==
    { <<"api", "key">>, <<"api", "-", "key">>, <<"api", "_", "key">>,
      <<"token">> }

\* masking_regex.search(key): a sensitive name stands in key between two
\* word boundaries
masking_regex_search(k) ==
    \E n \in SensitiveNames : \E i \in 1..(Len(k) - Len(n) + 1) :
        /\ SubSeq(LowerKey(k), i, i + Len(n) - 1) = n
        /\ i = 1 \/ k[i - 1] \in OtherPieces
        /\ i + Len(n) - 1 = Len(k) \/ k[i + Len(n)] \in OtherPieces

\* Faulty variant of mask_sensitive_value: the pattern is searched in the
\* value.
mask_by_value(key, value) ==
    IF masking_regex_search(value) THEN masking_replacement ELSE value

\* mask_sensitive_value, lines 227-231
mask_sensitive_value(key, value) ==
    IF masking_regex_search(key) THEN masking_replacement ELSE value

call_mask_sensitive_value ==
    /\ call = None
    /\ \E key \in MaskKeys, value \in MaskValues :
         Called("mask_sensitive_value", <<key, value>>,
                mask_sensitive_value(key, value))
    /\ UNCHANGED taskVars

\* The visible text sample of PageParser._parse_dom.  A text is written as
\* its runs: <<"w", n>> is n characters that are not whitespace, <<"s", n>>
\* is n whitespace characters, and two runs that follow each other are of
\* different kinds.
MaxRuns == 3        \* runs of the text of a page
SampleLimit == 500  \* the slice [:500] of visible_text_sample

RunLens == {1, SampleLimit - 1, SampleLimit, SampleLimit + 1}
Runs == {"w", "s"} \X RunLens
Texts ==
    { t \in SeqsUpTo(Runs, MaxRuns) :
        \A i \in 1..(Len(t) - 1) : t[i][1] # t[i + 1][1] }

\* len(text)
RECURSIVE TextLen(_)
TextLen(t) == IF t = <<>> THEN 0 ELSE t[1][2] + TextLen(Tail(t))

\* ' '.join(text.split()): whitespace at the ends is dropped and every
\* other run of whitespace becomes one space
Collapse(t) ==
    LET a == IF t # <<>> /\ t[1][1] = "s" THEN Tail(t) ELSE t
        b == IF a # <<>> /\ Last(a)[1] = "s" THEN Front(a) ELSE a
    IN [i \in 1..Len(b) |-> IF b[i][1] = "s" THEN <<"s", 1>> ELSE b[i]]

\* text[:n]
RECURSIVE TakeRuns(_, _)
TakeRuns(t, n) ==
    IF t = <<>> \/ n = 0 THEN <<>>
    ELSE IF t[1][2] <= n THEN <<t[1]>> \o TakeRuns(Tail(t), n - t[1][2])
    ELSE << <<t[1][1], n>> >>

\* the "..." appended to the sample: three characters
Ellipsis == << <<".", 3>> >>

\* _parse_dom, line 142
visible_text_sample(text_content) ==
    TakeRuns(Collapse(text_content), SampleLimit)
        \o (IF TextLen(text_content) > SampleLimit THEN Ellipsis ELSE <<>>)

call_visible_text_sample ==
    /\ call = None
    /\ \E text_content \in Texts :
         Called("visible_text_sample", <<text_content>>,
                visible_text_sample(text_content))
    /\ UNCHANGED taskVars

UtilNext ==
    \/ call_normalize_url
    \/ call_is_within_scope
    \/ call_mask_sensitive_value
    \/ call_visible_text_sample

UtilSpec == Init /\ [][UtilNext]_vars

\* C11: normalize_url is idempotent: normalizing its own output again, with
\* the same trailing-slash setting, returns that output unchanged, for every
\* URL, a path of slashes only and explicit ports included.
C11_Idempotent ==
    IsCall("normalize_url") => normalize_url(Out, Args[2]) = Out

\* the query strings that write the pairs of q in some other order
Reorderings(q) ==
    { [i \in 1..Len(q) |-> q[p[i]]] : p \in Permutations(1..Len(q)) }

\* C12: normalize_url does not depend on the order of the query parameters:
\* two URLs that differ only in the order of their key=value pairs, pairs
\* that repeat a key with different values included, normalize to the same
\* string.
C12_OrderInsensitive ==
    IsCall("normalize_url") =>
        \A q \in Reorderings(Args[1].query) :
            normalize_url([Args[1] EXCEPT !.query = q], Args[2]) = Out

\* path q ends with one slash and no more
EndsWithOneSlash(q) ==
    /\ q # <<>>
    /\ Last(q) = "/"
    /\ Len(q) > 1 => q[Len(q) - 1] # "/"

\* C17: the trailing-slash policy of normalize_url: with the option enabled
\* the normalized path ends with exactly one slash whatever the input; with
\* it disabled every trailing slash is removed, except that a path that is
\* the root or reduces to it (such as "//") is normalized to exactly "/".
C17_TrailingSlashPolicy ==
    IsCall("normalize_url") =>
        IF Args[2] THEN EndsWithOneSlash(Out.path)
        ELSE IF RStripSlash(Args[1].path) = <<>> THEN Out.path = <<"/">>
        ELSE Out.path = RStripSlash(Args[1].path)

\* the port a URL addresses: the one written, or the default of its scheme
DefaultPort(scheme) == IF scheme = "https" THEN 443 ELSE 80
EffectivePort(u) == IF u.port = 0 THEN DefaultPort(u.scheme) ELSE u.port

ScopeCall == IsCall("is_within_scope") /\ Args[2] # None
Base == Args[1]
Target == Get(Args[2])

\* C13: without subdomains a candidate matches the base when scheme, host
\* and port are equal after default-port normalization, so that
\* https://a.com:443/x matches the base https://a.com and https://b.a.com/x
\* does not; with subdomains included a subdomain of the base host is in
\* scope.
C13_HostMatch ==
    ScopeCall /\ ~PathRejected(Target.path) =>
        IF Args[3]
        THEN EndsWithDotHost(Target.host, Base.host) => Out
        ELSE Out <=> /\ Target.scheme = Base.scheme
                     /\ Target.host = Base.host
                     /\ EffectivePort(Target) = EffectivePort(Base)

\* C14: a candidate that passes the host check is out of scope exactly when
\* its path contains a blacklisted entry or, lower-cased, ends with a
\* blacklisted extension; the empty candidate is always out of scope; the
\* result is the conjunction of the host check and the path check.
C14_PathRejection ==
    IsCall("is_within_scope") =>
        IF Args[2] = None THEN Out = FALSE
        ELSE LET path == IF Target.path = <<>> THEN <<"/">> ELSE Target.path
                 listed == \E b \in path_blacklist : Contains(path, b)
                 ext == \E e \in extension_blacklist :
                            LowerPiece(Last(path)) = e
             IN /\ HostCheck(Base, Target, Args[3]) =>
                      (Out = FALSE <=> listed \/ ext)
                /\ Out <=> HostCheck(Base, Target, Args[3])
                             /\ ~(listed \/ ext)

\* a candidate on the base's host is rejected for its upper-case extension
C14_Witness ==
    /\ ScopeCall
    /\ HostCheck(Base, Target, Args[3])
    /\ Target.path = <<"/", "x", ".PDF">>
    /\ Out = FALSE

\* C15: masking is key-driven and idempotent: mask_sensitive_value returns
\* the replacement token when the key matches the sensitive-name pattern and
\* the value unchanged otherwise; the replacement token does not match the
\* pattern; and masking the result again under the same key returns it
\* unchanged.
C15_KeyDrivenIdempotent ==
    IsCall("mask_sensitive_value") =>
        /\ masking_regex_search(Args[1]) => Out = masking_replacement
        /\ ~masking_regex_search(Args[1]) => Out = Args[2]
        /\ ~masking_regex_search(masking_replacement)
        /\ mask_sensitive_value(Args[1], Out) = Out

\* the value of key api_key is masked
C15_Witness ==
    /\ IsCall("mask_sensitive_value")
    /\ Args = << <<"api", "_", "key">>, <<"xyz">> >>
    /\ Out = masking_replacement

\* C18: the visible text sample is the whitespace-collapsed text of the page
\* cut to at most 500 characters: it is never longer than 500, and a page
\* whose collapsed text has at most 500 characters is reported in full.
C18_SampleAtMostLimit ==
    IsCall("visible_text_sample") =>
        /\ TextLen(Out) <= SampleLimit
        /\ TextLen(Collapse(Args[1])) <= SampleLimit => Out = Collapse(Args[1])

\* The case of C16: the task asks for remaining depth 1 and the rendered
\* page has one form, a login form, and a WordPress generator meta.
E2ECase ==
    /\ api_input # None /\ Get(api_input).remaining_depth = 1
    /\ page # None
    /\ Len(Get(page).forms) = 1 /\ IsLoginForm(Get(page).forms[1])
    /\ Get(page).generator = Some("WordPress 6.4")
HasReport == result.kind = "report"
TheReport == Get(result.report)
Completed == payload # None /\ Status = "completed"

\* C16 as stated: whenever such a page has been parsed into a report, the
\* report's cms holds a WordPress entry and its is_admin_like is true,
\* whether or not the title or the headings hold admin vocabulary.
C16_AdminLikeFromForm ==
    E2ECase /\ HasReport =>
        /\ \E i \in 1..Len(TheReport.cms) : IsWordpress(TheReport.cms[i])
        /\ TheReport.is_admin_like

\* C16: whenever such a page has been parsed into a report, the report's cms
\* holds a WordPress entry, its candidates hold the resolved action of the
\* login form, and its is_admin_like is true exactly when the title or a
\* heading holds admin vocabulary; the callback is then called at most once,
\* exactly once when the worker is done, with status "completed" and that
\* report as result_data.
C16_EndToEnd ==
    E2ECase /\ HasReport =>
        /\ \E i \in 1..Len(TheReport.cms) : IsWordpress(TheReport.cms[i])
        /\ urljoin(Get(page).current_url, Get(page).forms[1].action)
               \in TheReport.candidates
        /\ TheReport.is_admin_like <=>
               \/ Get(page).title = "admin"
               \/ Get(page).headings # <<>>
        /\ postCalls <= 1
        /\ WorkerDone => postCalls = 1
        /\ payload # None =>
               /\ Status = "completed"
               /\ Get(payload).result_data = result.report

\* the callback of such a task was delivered: the form's action on the
\* redirected origin is a candidate, and the page is not admin-like
C16_Witness ==
    /\ E2ECase /\ HasReport /\ Completed /\ WorkerDone
    /\ Get(page).current_url = <<OtherOrigin, "/">>
    /\ Get(page).forms[1].action = HrefRel("/login")
    /\ <<OtherOrigin, "/login">> \in Get(Get(payload).result_data).candidates
    /\ ~Get(Get(payload).result_data).is_admin_like

============================================================================
